---- MODULE Spec2Model ----
(***************************************************************************)
(* A model of the `trial` spider (src/artworks/spiders/trial.py): the      *)
(* utility functions of UtilsMixin and the four callbacks of TrialSpider,  *)
(* run by a scheduler that hands every pending request, in any order, to   *)
(* its callback together with the page fetched for it.                     *)
(*                                                                         *)
(* Strings are sequences of one-character strings, so that lower-casing,   *)
(* character deletion and regular-expression matching are computed.        *)
(***************************************************************************)
EXTENDS Integers, Sequences, FiniteSets, TLC

VARIABLES
    queue,      \* the scheduler: set of pending Request objects
    heap,       \* the Python list objects holding browse paths, by address
    items,      \* the items the spider has returned, in emission order
    last,       \* the last callback invocation: request, page, what it yielded
    handled,    \* the requests whose callback has run
    site,       \* the pages of the site, by url (fixed-site specifications)
    call        \* a call of a utility function: arguments and returned value

vars == <<queue, heap, items, last, handled, site, call>>

----------------------------------------------------------------------------
(* Python values *)

None == [type |-> "NoneType"]

PyStr(s) == [type |-> "str", val |-> s]

PyList(l) == [type |-> "list", val |-> l]

PyTuple(l) == [type |-> "tuple", val |-> l]

\* x in l, for a list or tuple l
PyIn(x, l) == \E i \in DOMAIN l.val : l.val[i] = x.val

UpperCase ==
    <<"A","B","C","D","E","F","G","H","I","J","K","L","M",
      "N","O","P","Q","R","S","T","U","V","W","X","Y","Z">>

LowerCase ==
    <<"a","b","c","d","e","f","g","h","i","j","k","l","m",
      "n","o","p","q","r","s","t","u","v","w","x","y","z">>

\* str.lower(), character by character
lower(s) ==
    [i \in DOMAIN s |->
        IF \E k \in DOMAIN UpperCase : UpperCase[k] = s[i]
        THEN LowerCase[CHOOSE k \in DOMAIN UpperCase : UpperCase[k] = s[i]]
        ELSE s[i]]

\* str.replace(old, ''), for a one-character old
replace_char(s, old) == SelectSeq(s, LAMBDA c : c # old)

----------------------------------------------------------------------------
(* UtilsMixin *)

\* sanitizer with a fault: the case is kept
sanitizer_keeps_case(x) == replace_char(x, " ")

sanitizer(x) == replace_char(lower(x), " ")

sanitize_category(category) ==
    IF category.type \in {"list", "tuple"}
    THEN PyList([i \in DOMAIN category.val |-> sanitizer(category.val[i])])
    ELSE PyStr(sanitizer(category.val))

\* urlparse(url): a url is its scheme, its network location and its path (the
\* text after the leading "/")
urlparse(url) == [scheme |-> url.scheme, netloc |-> url.netloc]

\* '{uri.scheme}://{uri.netloc}/'
get_base_href(url) ==
    LET parsed_uri == urlparse(url)
    IN  [scheme |-> parsed_uri.scheme, netloc |-> parsed_uri.netloc, path |-> ""]

\* urllib.parse.urljoin(base, href) for a base whose path is "/": an href is
\* [scheme, netloc, rooted, path]; one with a scheme is absolute, one with a
\* network location only takes the base's scheme, and a path, rooted ("/x")
\* or relative ("x"), lands under the base's root
urljoin(base, href) ==
    IF href.scheme # ""
    THEN [scheme |-> href.scheme, netloc |-> href.netloc, path |-> href.path]
    ELSE IF href.netloc # ""
    THEN [scheme |-> base.scheme, netloc |-> href.netloc, path |-> href.path]
    ELSE [scheme |-> base.scheme, netloc |-> base.netloc, path |-> href.path]

(* re.match('.*\((\d+\.\d+)\s+x\s(\d+\.\d+)\scm\)\s+\(sheet\)', details) *)

At(s, i) == IF i \in 1..Len(s) THEN s[i] ELSE ""

IsDigit(c) == c \in {"0","1","2","3","4","5","6","7","8","9"}

\* \s
IsSpace(c) == c \in {" ", "\t", "\n", "\r", "\f"}

\* the position after the longest run of digits (\d+ is greedy, and what
\* follows it in the pattern is never a digit) starting at i
RECURSIVE SkipDigits(_, _)
SkipDigits(s, i) == IF IsDigit(At(s, i)) THEN SkipDigits(s, i + 1) ELSE i

RECURSIVE SkipSpace(_, _)
SkipSpace(s, i) == IF IsSpace(At(s, i)) THEN SkipSpace(s, i + 1) ELSE i

Literal(s, i, lit) == \A k \in 1..Len(lit) : At(s, i + k - 1) = lit[k]

\* the pattern after its leading .* , matched at position i: the two groups,
\* or <<>> when it does not match there
MatchAt(s, i) ==
    LET p1 == SkipDigits(s, i + 1)       \* \( \d+
        p2 == SkipDigits(s, p1 + 1)      \* \. \d+
        p3 == SkipSpace(s, p2)           \* \s+
        p4 == p3 + 2                     \* x \s
        p5 == SkipDigits(s, p4)          \* \d+
        p6 == SkipDigits(s, p5 + 1)      \* \. \d+
        p7 == SkipSpace(s, p6 + 4)       \* \s cm\) \s+
    IN  IF /\ At(s, i) = "("
           /\ p1 > i + 1
           /\ At(s, p1) = "."
           /\ p2 > p1 + 1
           /\ p3 > p2
           /\ At(s, p3) = "x"
           /\ IsSpace(At(s, p3 + 1))
           /\ p5 > p4
           /\ At(s, p5) = "."
           /\ p6 > p5 + 1
           /\ IsSpace(At(s, p6))
           /\ Literal(s, p6 + 1, <<"c", "m", ")">>)
           /\ p7 > p6 + 4
           /\ Literal(s, p7, <<"(", "s", "h", "e", "e", "t", ")">>)
        THEN <<SubSeq(s, i + 1, p2 - 1), SubSeq(s, p4, p6 - 1)>>
        ELSE <<>>

\* re.match: anchored at the start only; .* is greedy and does not cross a
\* newline, so the groups are those of the last position the pattern matches
\* at that no newline precedes
re_match(s) ==
    LET starts == {i \in 1..Len(s) :
                      /\ \A k \in 1..(i - 1) : s[k] # "\n"
                      /\ MatchAt(s, i) # <<>>}
    IN  IF starts = {} THEN <<>>
        ELSE MatchAt(s, CHOOSE i \in starts : \A j \in starts : j <= i)

DigitValue(c) ==
    CASE c = "0" -> 0 [] c = "1" -> 1 [] c = "2" -> 2 [] c = "3" -> 3
      [] c = "4" -> 4 [] c = "5" -> 5 [] c = "6" -> 6 [] c = "7" -> 7
      [] c = "8" -> 8 [] c = "9" -> 9

RECURSIVE ToNat(_)
ToNat(ds) ==
    IF ds = <<>> THEN 0
    ELSE 10 * ToNat(SubSeq(ds, 1, Len(ds) - 1)) + DigitValue(ds[Len(ds)])

RECURSIVE StripTrailingZeros(_)
StripTrailingZeros(ds) ==
    IF ds # <<>> /\ ds[Len(ds)] = "0"
    THEN StripTrailingZeros(SubSeq(ds, 1, Len(ds) - 1))
    ELSE ds

\* float(text) of a text \d+\.\d+ : the number, as its whole part and the
\* digits of its fraction without trailing zeros ("21.0" and "021.00" are
\* the same float)
float(text) ==
    LET dot == CHOOSE i \in 1..Len(text) : text[i] = "."
    IN  [type  |-> "float",
         whole |-> ToNat(SubSeq(text, 1, dot - 1)),
         frac  |-> StripTrailingZeros(SubSeq(text, dot + 1, Len(text)))]

\* extract_physical_dimension with a fault: a text that does not match gives
\* 0.0
extract_physical_dimension_zero(details, type) ==
    LET mach == re_match(details)
    IN  IF mach # <<>>
        THEN LET dimensions == [height |-> mach[1], width |-> mach[2]]
             IN  float(dimensions[type])
        ELSE [type |-> "float", whole |-> 0, frac |-> <<>>]

\* extract_physical_dimension with a fault: the two groups are swapped
extract_physical_dimension_swapped(details, type) ==
    LET mach == re_match(details)
    IN  IF mach # <<>>
        THEN LET dimensions == [height |-> mach[2], width |-> mach[1]]
             IN  float(dimensions[type])
        ELSE None

extract_physical_dimension(details, type) ==
    LET mach == re_match(details)
    IN  IF mach # <<>>
        THEN LET dimensions == [height |-> mach[1], width |-> mach[2]]
             IN  float(dimensions[type])
        ELSE None

----------------------------------------------------------------------------
(* Python lists on the heap: an address is an index of `heap`; 0 is no list *)

\* [category]: a new list object
list_new(hp, elems) == [heap |-> Append(hp, elems), addr |-> Len(hp) + 1]

\* list.copy() with a fault: the list itself is handed on, not a copy
list_copy_alias(hp, a) == [heap |-> hp, addr |-> a]

\* list.copy(): a new list object with the same elements
list_copy(hp, a) == [heap |-> Append(hp, hp[a]), addr |-> Len(hp) + 1]

\* list.append(x) with a fault: nothing is appended
list_append_nothing(hp, a, x) == hp

\* list.append(x): the list object at address a changes in place
list_append(hp, a, x) == [hp EXCEPT ![a] = Append(@, x)]

----------------------------------------------------------------------------
(* TrialSpider *)

previous_text == <<"P","r","e","v">>

next_text == <<"N","e","x","t">>

allowed_categories == PyTuple(<<<<"I","n"," ","S","u","n","s","h">>, <<"S","u","m","m","e","r","t","i","m","e">>>>)

start_urls ==
    <<[scheme |-> "http", netloc |-> "pstrial-a-2018-10-19.toscrape.com",
       path |-> "browse/"]>>

\* __init__: self.base_url
base_url == get_base_href(start_urls[1])

\* a meta key that is not set
NoList == 0

NoUrl == [scheme |-> "", netloc |-> "", path |-> ""]

\* scrapy.http.Request(url, meta=..., callback=...). hist is not part of the
\* request: it records where the request comes from (the recursion level of
\* the category page, the listing pages already scheduled in its pagination
\* chain, the path of the leaf category whose listing it belongs to, and the
\* elements of its browse path when it was yielded).
Request(url, meta, callback, hist) ==
    [url |-> url, meta |-> meta, callback |-> callback, hist |-> hist]

NoHist == [depth |-> 0, chain |-> <<>>, leaf |-> <<>>, path |-> <<>>]

\* what a callback has done so far: the heap, the requests and items yielded,
\* in order, whether an exception ended it, and the functions that ran
Yielded(hp, out, its, failed, calls) ==
    [heap |-> hp, out |-> out, items |-> its, failed |-> failed, calls |-> calls]

\* parse with a fault: every category is crawled
category_allowed_all(category) == TRUE

\* parse with a fault: the category is compared as it is written on the page
category_allowed_unsanitized(category) ==
    \E i \in DOMAIN allowed_categories.val : allowed_categories.val[i] = category

\* parse: s_category in allowed_categories, both sanitized
category_allowed(category) ==
    LET allowed == sanitize_category(allowed_categories)
        s_category == sanitize_category(PyStr(category))
    IN  PyIn(s_category, allowed)

\* parse with a fault: a link without a name or an href is skipped and the
\* loop goes on
RECURSIVE parse_loop_skipping(_, _, _)
parse_loop_skipping(response, i, acc) ==
    IF i > Len(response.page.subcats) THEN acc
    ELSE LET sel == response.page.subcats[i]
         IN  IF sel.h3 = <<>>
             THEN parse_loop_skipping(response, i + 1, [acc EXCEPT !.failed = TRUE])
             ELSE LET category == sel.h3[1]
                  IN  IF ~category_allowed(category)
                      THEN parse_loop_skipping(response, i + 1, acc)
                      ELSE IF sel.href = <<>>
                      THEN parse_loop_skipping(response, i + 1,
                               [acc EXCEPT !.failed = TRUE])
                      ELSE LET relative_url == sel.href[1]
                               absolute_url == urljoin(base_url, relative_url)
                               new == list_new(acc.heap, <<category>>)
                               req == Request(absolute_url,
                                          [browse_path |-> new.addr, url |-> NoUrl],
                                          "parse_subcategory",
                                          [depth |-> response.hist.depth + 1,
                                           chain |-> <<>>, leaf |-> <<>>,
                                           path |-> new.heap[new.addr]])
                           IN  parse_loop_skipping(response, i + 1,
                                   [acc EXCEPT !.heap = new.heap,
                                               !.out = Append(@, req)])

\* parse: the loop over the subcategory links, from link i on. A link is
\* [h3, href], the lists that xpath('./h3/text()') and xpath('@href') select;
\* [0] of an empty list raises IndexError, which ends the generator after what
\* it has yielded.
RECURSIVE parse_loop(_, _, _)
parse_loop(response, i, acc) ==
    IF i > Len(response.page.subcats) \/ acc.failed THEN acc
    ELSE LET sel == response.page.subcats[i]
         IN  IF sel.h3 = <<>>
             THEN [acc EXCEPT !.failed = TRUE]
             ELSE LET category == sel.h3[1]
                  IN  IF ~category_allowed(category)
                      THEN parse_loop(response, i + 1, acc)
                      ELSE IF sel.href = <<>>
                      THEN [acc EXCEPT !.failed = TRUE]
                      ELSE LET relative_url == sel.href[1]
                               absolute_url == urljoin(base_url, relative_url)
                               new == list_new(acc.heap, <<category>>)
                               req == Request(absolute_url,
                                          [browse_path |-> new.addr, url |-> NoUrl],
                                          "parse_subcategory",
                                          [depth |-> response.hist.depth + 1,
                                           chain |-> <<>>, leaf |-> <<>>,
                                           path |-> new.heap[new.addr]])
                           IN  parse_loop(response, i + 1,
                                   [acc EXCEPT !.heap = new.heap,
                                               !.out = Append(@, req)])

parse(response, hp) ==
    parse_loop(response, 1, Yielded(hp, <<>>, <<>>, FALSE, <<"parse">>))

\* parse_art_list with a fault: the two markers are swapped
callback_for_swapped(link_text) ==
    IF link_text = lower(next_text) THEN "continue"
    ELSE IF link_text = lower(previous_text) THEN "parse_art_list"
    ELSE "parse_art"

\* parse_art_list with a fault: the link text is compared as written
callback_for_case_sensitive(link_text) ==
    IF link_text = previous_text THEN "continue"
    ELSE IF link_text = next_text THEN "parse_art_list"
    ELSE "parse_art"

\* parse_art_list with a fault: every link that is not "previous" is taken
\* for a further page of the listing
callback_for_all_listings(link_text) ==
    IF link_text = lower(previous_text) THEN "continue"
    ELSE "parse_art_list"

\* parse_art_list: the callback for a link whose lower-cased text is
\* link_text; "continue" when the link is skipped
callback_for(link_text) ==
    IF link_text = lower(previous_text) THEN "continue"
    ELSE IF link_text = lower(next_text) THEN "parse_art_list"
    ELSE "parse_art"

\* parse_art_list: the loop over the links of the listing, from link i on. A
\* link is [href, text], the lists that xpath('@href') and xpath('text()')
\* select.
RECURSIVE parse_art_list_loop(_, _, _)
parse_art_list_loop(response, i, acc) ==
    IF i > Len(response.page.arts) \/ acc.failed THEN acc
    ELSE LET art == response.page.arts[i]
             browse_path == list_copy(acc.heap, response.meta.browse_path)
             copied == [acc EXCEPT !.heap = browse_path.heap]
         IN  IF art.href = <<>> \/ art.text = <<>>
             THEN [copied EXCEPT !.failed = TRUE]
             ELSE LET relative_url == art.href[1]
                      absolute_url == urljoin(base_url, relative_url)
                      link_text == lower(art.text[1])
                      callback == callback_for(link_text)
                      req == Request(absolute_url,
                                 [browse_path |-> browse_path.addr,
                                  url |-> absolute_url],
                                 callback,
                                 [depth |-> response.hist.depth,
                                  chain |-> IF callback = "parse_art_list"
                                            THEN Append(response.hist.chain,
                                                        response.url)
                                            ELSE <<>>,
                                  leaf  |-> IF response.hist.leaf = <<>>
                                            THEN acc.heap[response.meta.browse_path]
                                            ELSE response.hist.leaf,
                                  path  |-> browse_path.heap[browse_path.addr]])
                  IN  IF callback = "continue"
                      THEN parse_art_list_loop(response, i + 1, copied)
                      ELSE parse_art_list_loop(response, i + 1,
                               [copied EXCEPT !.out = Append(@, req)])

parse_art_list(response, hp) ==
    parse_art_list_loop(response, 1,
        Yielded(hp, <<>>, <<>>, FALSE, <<"parse_art_list">>))

\* parse_subcategory with a fault: the allow-list of parse is applied to the
\* subcategory links too
RECURSIVE parse_subcategory_loop_filtered(_, _, _)
parse_subcategory_loop_filtered(response, i, acc) ==
    IF i > Len(response.page.subcats) \/ acc.failed THEN acc
    ELSE LET sel == response.page.subcats[i]
             browse_path == list_copy(acc.heap, response.meta.browse_path)
             copied == [acc EXCEPT !.heap = browse_path.heap]
         IN  IF sel.h3 = <<>>
             THEN [copied EXCEPT !.failed = TRUE]
             ELSE LET sub_category == sel.h3[1]
                      appended == list_append(browse_path.heap, browse_path.addr,
                                              sub_category)
                  IN  IF ~category_allowed(sub_category)
                      THEN parse_subcategory_loop_filtered(response, i + 1,
                               [copied EXCEPT !.heap = appended])
                      ELSE IF sel.href = <<>>
                      THEN [copied EXCEPT !.heap = appended, !.failed = TRUE]
                      ELSE LET relative_url == sel.href[1]
                               absolute_url == urljoin(base_url, relative_url)
                               req == Request(absolute_url,
                                          [browse_path |-> browse_path.addr,
                                           url |-> NoUrl],
                                          "parse_subcategory",
                                          [depth |-> response.hist.depth + 1,
                                           chain |-> <<>>, leaf |-> <<>>,
                                           path |-> appended[browse_path.addr]])
                           IN  parse_subcategory_loop_filtered(response, i + 1,
                                   [copied EXCEPT !.heap = appended,
                                                  !.out = Append(@, req)])

\* parse_subcategory: the loop over the subcategory links, from link i on
RECURSIVE parse_subcategory_loop(_, _, _)
parse_subcategory_loop(response, i, acc) ==
    IF i > Len(response.page.subcats) \/ acc.failed THEN acc
    ELSE LET sel == response.page.subcats[i]
             browse_path == list_copy(acc.heap, response.meta.browse_path)
             copied == [acc EXCEPT !.heap = browse_path.heap]
         IN  IF sel.h3 = <<>>
             THEN [copied EXCEPT !.failed = TRUE]
             ELSE LET sub_category == sel.h3[1]
                      appended == list_append(browse_path.heap, browse_path.addr,
                                              sub_category)
                  IN  IF sel.href = <<>>
                      THEN [copied EXCEPT !.heap = appended, !.failed = TRUE]
                      ELSE LET relative_url == sel.href[1]
                               absolute_url == urljoin(base_url, relative_url)
                               req == Request(absolute_url,
                                          [browse_path |-> browse_path.addr,
                                           url |-> NoUrl],
                                          "parse_subcategory",
                                          [depth |-> response.hist.depth + 1,
                                           chain |-> <<>>, leaf |-> <<>>,
                                           path |-> appended[browse_path.addr]])
                           IN  parse_subcategory_loop(response, i + 1,
                                   [copied EXCEPT !.heap = appended,
                                                  !.out = Append(@, req)])

\* parse_subcategory with a fault: the listing of the page is read whether
\* or not the page has subcategory links
parse_subcategory_always_listing(response, hp) ==
    parse_subcategory_loop(response, 1,
        [parse_art_list(response, hp) EXCEPT
            !.calls = <<"parse_subcategory", "parse_art_list">>])

\* parse_subcategory with a fault: a page without subcategory links is not
\* handed to parse_art_list
parse_subcategory_no_listing(response, hp) ==
    parse_subcategory_loop(response, 1,
        Yielded(hp, <<>>, <<>>, FALSE, <<"parse_subcategory">>))

parse_subcategory(response, hp) ==
    LET sub_category_selectors == response.page.subcats
        listed == IF sub_category_selectors = <<>>
                  THEN [parse_art_list(response, hp) EXCEPT
                           !.calls = <<"parse_subcategory", "parse_art_list">>]
                  ELSE Yielded(hp, <<>>, <<>>, FALSE, <<"parse_subcategory">>)
    IN  parse_subcategory_loop(response, 1, listed)

\* TakeFirst(): the first collected value that is neither None nor ''
RECURSIVE TakeFirst(_)
TakeFirst(values) ==
    IF values = <<>> THEN None
    ELSE IF Head(values) # None /\ Head(values) # PyStr(<<>>) THEN Head(values)
    ELSE TakeFirst(Tail(values))

\* MapCompose(f) over the selected texts: the values that are not None
RECURSIVE MapCompose_dimension(_, _)
MapCompose_dimension(texts, type) ==
    IF texts = <<>> THEN <<>>
    ELSE LET v == extract_physical_dimension(Head(texts), type)
             rest == MapCompose_dimension(Tail(texts), type)
         IN  IF v = None THEN rest ELSE <<v>> \o rest

\* parse_art with a fault: a page without a title gives no item
parse_art_untitled_dropped(response, hp) ==
    LET d == response.page.detail
        texts(l) == [i \in DOMAIN l |-> PyStr(l[i])]
        images == [i \in DOMAIN d.image |-> urljoin(base_url, d.image[i])]
        browse_path == hp[response.meta.browse_path]
        item == [url         |-> TakeFirst(<<response.meta.url>>),
                 artist      |-> IF d.artist = <<>> THEN None
                                 ELSE PyList(d.artist),
                 title       |-> TakeFirst(texts(d.title)),
                 image       |-> TakeFirst(images),
                 height      |-> TakeFirst(MapCompose_dimension(d.dimension, "height")),
                 width       |-> TakeFirst(MapCompose_dimension(d.dimension, "width")),
                 description |-> TakeFirst(texts(d.description)),
                 path        |-> IF browse_path = <<>> THEN None
                                 ELSE PyList(browse_path)]
    IN  Yielded(hp, <<>>, IF item.title = None THEN <<>> ELSE <<item>>, FALSE,
                <<"parse_art">>)

\* parse_art with a fault: the item's path is the last category only
parse_art_last_category(response, hp) ==
    LET d == response.page.detail
        texts(l) == [i \in DOMAIN l |-> PyStr(l[i])]
        images == [i \in DOMAIN d.image |-> urljoin(base_url, d.image[i])]
        browse_path == hp[response.meta.browse_path]
        item == [url         |-> TakeFirst(<<response.meta.url>>),
                 artist      |-> IF d.artist = <<>> THEN None
                                 ELSE PyList(d.artist),
                 title       |-> TakeFirst(texts(d.title)),
                 image       |-> TakeFirst(images),
                 height      |-> TakeFirst(MapCompose_dimension(d.dimension, "height")),
                 width       |-> TakeFirst(MapCompose_dimension(d.dimension, "width")),
                 description |-> TakeFirst(texts(d.description)),
                 path        |-> IF browse_path = <<>> THEN None
                                 ELSE PyList(<<browse_path[Len(browse_path)]>>)]
    IN  Yielded(hp, <<>>, <<item>>, FALSE, <<"parse_art">>)

\* parse_art: the item loaded from the page. A page's detail is the lists of
\* texts its xpaths select; a field is None when nothing was collected for
\* it (load_item leaves it out). The loader collects the elements of the
\* request's browse path into a list of its own.
parse_art(response, hp) ==
    LET d == response.page.detail
        texts(l) == [i \in DOMAIN l |-> PyStr(l[i])]
        images == [i \in DOMAIN d.image |-> urljoin(base_url, d.image[i])]
        browse_path == hp[response.meta.browse_path]
        item == [url         |-> TakeFirst(<<response.meta.url>>),
                 artist      |-> IF d.artist = <<>> THEN None
                                 ELSE PyList(d.artist),
                 title       |-> TakeFirst(texts(d.title)),
                 image       |-> TakeFirst(images),
                 height      |-> TakeFirst(MapCompose_dimension(d.dimension, "height")),
                 width       |-> TakeFirst(MapCompose_dimension(d.dimension, "width")),
                 description |-> TakeFirst(texts(d.description)),
                 path        |-> IF browse_path = <<>> THEN None
                                 ELSE PyList(browse_path)]
    IN  Yielded(hp, <<>>, <<item>>, FALSE, <<"parse_art">>)

----------------------------------------------------------------------------
(* The engine: a pending request is taken, in any order, its page is        *)
(* fetched and its callback runs on the response; the requests the callback *)
(* yields are scheduled and the items it yields are collected.              *)

Response(req, page) ==
    [url |-> req.url, meta |-> req.meta, hist |-> req.hist, page |-> page]

SeqToSet(q) == {q[i] : i \in DOMAIN q}

PathOf(hp, a) == IF a = NoList THEN <<>> ELSE hp[a]

\* the state after request req is handled with the page fetched for it,
\* r being what its callback did: what the callback yielded is scheduled and
\* collected, in order
Step(st, req, page, r) ==
    [queue   |-> (st.queue \ {req}) \cup SeqToSet(r.out),
     heap    |-> r.heap,
     items   |-> st.items \o r.items,
     handled |-> st.handled \cup {req},
     last    |-> [callback |-> req.callback, request |-> req, page |-> page,
                  path |-> PathOf(st.heap, req.meta.browse_path),
                  out |-> r.out, items |-> r.items, failed |-> r.failed,
                  calls |-> r.calls]]

Current ==
    [queue |-> queue, heap |-> heap, items |-> items, handled |-> handled,
     last |-> last]

Deliver(req, page, r) ==
    \E st \in {Step(Current, req, page, r)} :
        /\ queue' = st.queue
        /\ heap' = st.heap
        /\ items' = st.items
        /\ handled' = st.handled
        /\ last' = st.last
        /\ UNCHANGED <<site, call>>

CallParse(req, page) ==
    /\ req \in queue
    /\ req.callback = "parse"
    /\ Deliver(req, page, parse(Response(req, page), heap))

CallParseSubcategory(req, page) ==
    /\ req \in queue
    /\ req.callback = "parse_subcategory"
    /\ Deliver(req, page, parse_subcategory(Response(req, page), heap))

CallParseArtList(req, page) ==
    /\ req \in queue
    /\ req.callback = "parse_art_list"
    /\ Deliver(req, page, parse_art_list(Response(req, page), heap))

CallParseArt(req, page) ==
    /\ req \in queue
    /\ req.callback = "parse_art"
    /\ Deliver(req, page, parse_art(Response(req, page), heap))

\* start_requests: the start url, for parse
StartRequest == Request(start_urls[1], [browse_path |-> NoList, url |-> NoUrl],
                        "parse", NoHist)

----------------------------------------------------------------------------
(* The pages the site serves. Nothing is assumed of the site: whenever a    *)
(* request is handled, the page fetched for it is any page of the bounded   *)
(* sets below.                                                              *)

\* the sequences over S of length at most n
RECURSIVE SeqsUpTo(_, _)
SeqsUpTo(S, n) ==
    IF n = 0 THEN {<<>>}
    ELSE LET shorter == SeqsUpTo(S, n - 1)
         IN  shorter \cup {Append(w, c) : w \in shorter, c \in S}

MaxLinks == 2

MaxFetch == 3

NameInSunsh == <<"I","n"," ","S","u","n","s","h">>

NameSummertime == <<"S","u","m","m","e","r","t","i","m","e">>

\* allowed once sanitized, not as written
NameInSunshLoud == <<"I","N"," "," ","S","U","N","S","H">>

NameOther == <<"O","t","h","e","r">>

\* "/p1", "p2" and "http://elsewhere/p1"
HrefRooted == [scheme |-> "", netloc |-> "", rooted |-> TRUE, path |-> "p1"]

HrefRelative == [scheme |-> "", netloc |-> "", rooted |-> FALSE, path |-> "p2"]

HrefAbsolute == [scheme |-> "http", netloc |-> "elsewhere", rooted |-> TRUE, path |-> "p1"]

TextPrev == <<"P","R","E","V">>

TextNext == <<"N","e","x","t">>

TextArt == <<"A","r","t">>

SubLinks(names, hrefs) == {[h3 |-> <<n>>, href |-> <<h>>] : n \in names, h \in hrefs}

ArtLinks(texts, hrefs) == {[href |-> <<h>>, text |-> <<t>>] : t \in texts, h \in hrefs}

NoDetail ==
    [artist |-> <<>>, title |-> <<>>, image |-> <<>>, dimension |-> <<>>,
     description |-> <<>>]

FullDetail ==
    [artist |-> <<<<"A">>, <<"B">>>>, title |-> <<<<"T">>>>,
     image |-> <<HrefRooted>>,
     dimension |-> <<<<"(","2","9",".","7"," ","x"," ","2","1",".","0"," ","c","m",")"," ","(","s","h","e","e","t",")">>>>,
     description |-> <<<<"D">>>>]

Page(subcats, arts, detail) == [subcats |-> subcats, arts |-> arts, detail |-> detail]

\* links that lack what the callbacks take [0] of
NamelessSubLink == [h3 |-> <<>>, href |-> <<HrefRooted>>]

HreflessSubLink == [h3 |-> <<NameInSunsh>>, href |-> <<>>]

TextlessArtLink == [href |-> <<HrefRooted>>, text |-> <<>>]

HreflessArtLink == [href |-> <<>>, text |-> <<TextArt>>]

CrawlSubLinks ==
    SubLinks({NameInSunshLoud, NameOther}, {HrefRooted, HrefRelative})
        \cup {NamelessSubLink}

CrawlArtLinks ==
    ArtLinks({TextPrev, TextNext, TextArt}, {HrefRooted, HrefRelative})
        \cup {TextlessArtLink}

OneArt == <<[href |-> <<HrefRooted>>, text |-> <<TextArt>>]>>

RootPages ==
    {Page(l, a, NoDetail) : l \in SeqsUpTo(CrawlSubLinks, MaxLinks), a \in {<<>>, OneArt}}

CategoryPages ==
    {Page(l, a, NoDetail) : l \in SeqsUpTo(CrawlSubLinks, MaxLinks) \ {<<>>},
                            a \in {<<>>, OneArt}}
        \cup {Page(<<>>, a, NoDetail) : a \in SeqsUpTo(CrawlArtLinks, MaxLinks)}

ListingPages == {Page(<<>>, a, NoDetail) : a \in SeqsUpTo(CrawlArtLinks, MaxLinks)}

ItemPages == {Page(<<>>, <<>>, d) : d \in {NoDetail, FullDetail}}

\* the state after construction: start_requests has scheduled the start url
Started ==
    [queue |-> {StartRequest}, heap |-> <<>>, items |-> <<>>, handled |-> {},
     last |-> [callback |-> "none"]]

\* the state after the root page has been handled
AfterRoot(page) ==
    Step(Started, StartRequest, page,
         parse(Response(StartRequest, page), Started.heap))

\* the state after the one category the root page lists has been handled too
AfterRootAndCategory(root_page, page) ==
    LET st == AfterRoot(root_page)
        req == CHOOSE r \in st.queue : TRUE
    IN  Step(st, req, page, parse_subcategory(Response(req, page), st.heap))

Is(st) ==
    /\ queue = st.queue
    /\ heap = st.heap
    /\ items = st.items
    /\ handled = st.handled
    /\ last = st.last

InitCrawl == Is(Started) /\ site = <<>>

NoCall == [fn |-> "none"]

Init == InitCrawl /\ call = NoCall

Fetching == Cardinality(handled) < MaxFetch

Next ==
    \/ \E req \in queue, page \in RootPages : Fetching /\ CallParse(req, page)
    \/ \E req \in queue, page \in CategoryPages :
          Fetching /\ CallParseSubcategory(req, page)
    \/ \E req \in queue, page \in ListingPages :
          Fetching /\ CallParseArtList(req, page)
    \/ \E req \in queue, page \in ItemPages : Fetching /\ CallParseArt(req, page)

Spec == Init /\ [][Next]_vars

----------------------------------------------------------------------------
(* The root page alone: parse on root pages of up to MaxRootLinks links,    *)
(* with names that are allowed as written, allowed once sanitized, and not  *)
(* allowed, and with links that lack a name or an href.                     *)

MaxRootLinks == 3

\* "In<TAB>Sunsh"
NameInSunshTab == <<"I","n","\t","S","u","n","s","h">>

RootSubLinks ==
    SubLinks({NameInSunsh}, {HrefRooted, HrefAbsolute})
        \cup SubLinks({NameSummertime, NameOther}, {HrefRelative})
        \cup SubLinks({NameInSunshLoud, NameInSunshTab}, {HrefRooted})
        \cup {NamelessSubLink, HreflessSubLink}

ParsePages == {Page(l, <<>>, NoDetail) : l \in SeqsUpTo(RootSubLinks, MaxRootLinks)}

NextParse == \E req \in queue, page \in ParsePages : CallParse(req, page)

SpecParse == Init /\ [][NextParse]_vars

----------------------------------------------------------------------------
(* One listing page alone: the crawl has reached the second page of a leaf  *)
(* category's listing, and parse_art_list runs on listing pages of up to    *)
(* MaxListLinks links.                                                      *)

MaxListLinks == 4

TextPrevAsSet == <<"P","r","e","v">>

TextNextLoud == <<"N","E","X","T">>

TextItemA == <<"i","t","e","m","-","A">>

TextItemB == <<"i","t","e","m","-","B">>

ListingArtLinks ==
    ArtLinks({TextPrevAsSet, TextPrev}, {HrefRooted})
        \cup ArtLinks({TextNext, TextNextLoud}, {HrefRelative})
        \cup ArtLinks({TextItemA}, {HrefAbsolute})
        \cup ArtLinks({TextItemB}, {HrefRooted})
        \cup {TextlessArtLink, HreflessArtLink}

\* the root page lists the category, whose page lists one art and Next
SecondPagePending ==
    AfterRootAndCategory(
        Page(<<[h3 |-> <<NameInSunsh>>, href |-> <<HrefRooted>>]>>, <<>>, NoDetail),
        Page(<<>>,
             <<[href |-> <<HrefAbsolute>>, text |-> <<TextItemA>>],
               [href |-> <<HrefRelative>>, text |-> <<TextNext>>]>>,
             NoDetail))

InitListing == Is(SecondPagePending) /\ site = <<>> /\ call = NoCall

ListingPagesWide ==
    {Page(<<>>, a, NoDetail) : a \in SeqsUpTo(ListingArtLinks, MaxListLinks)}

NextListing ==
    \E req \in queue \cap SecondPagePending.queue, page \in ListingPagesWide :
        CallParseArtList(req, page)

SpecListing == InitListing /\ [][NextListing]_vars

----------------------------------------------------------------------------
(* A leaf category on a fixed site: its listing is a chain of at most       *)
(* MaxPages pages, page k at "/p<k>", each with up to MaxItems art links,   *)
(* from the second page on possibly a Prev link to the page before, and a   *)
(* Next link to the page after on every page but the last. Pending requests *)
(* are handled in any order.                                                *)

MaxPages == 2

MaxItems == 2

PagePaths == <<"p1", "p2", "p3", "p4", "p5", "p6">>

HrefPage(k) == [scheme |-> "", netloc |-> "", rooted |-> TRUE, path |-> PagePaths[k]]

HrefArt == [scheme |-> "", netloc |-> "", rooted |-> TRUE, path |-> "art"]

PageUrl(k) == urljoin(base_url, HrefPage(k))

ChainPage(k, K, n, prev) ==
    Page(<<>>,
         [i \in 1..n |-> [href |-> <<HrefArt>>, text |-> <<TextItemA>>]]
            \o (IF prev THEN <<[href |-> <<HrefPage(k - 1)>>, text |-> <<TextPrevAsSet>>]>>
                ELSE <<>>)
            \o (IF k < K THEN <<[href |-> <<HrefPage(k + 1)>>, text |-> <<TextNext>>]>>
                ELSE <<>>),
         NoDetail)

Sites ==
    UNION {{[k \in 1..K |-> ChainPage(k, K, n[k], prev[k])] :
               n \in [1..K -> 0..MaxItems],
               prev \in {f \in [1..K -> BOOLEAN] : ~f[1]}} : K \in 1..MaxPages}

\* the root page lists the leaf category, at "/p1"
LeafPending ==
    AfterRoot(Page(<<[h3 |-> <<NameInSunsh>>, href |-> <<HrefPage(1)>>]>>,
                   <<>>, NoDetail))

InitChain == Is(LeafPending) /\ site \in Sites /\ call = NoCall

\* the page of the site at a url of the listing
PageAt(url) == site[CHOOSE k \in DOMAIN site : PageUrl(k) = url]

Listed(req) == \E k \in DOMAIN site : PageUrl(k) = req.url

NextChain ==
    \/ \E req \in queue : Listed(req) /\ CallParseSubcategory(req, PageAt(req.url))
    \/ \E req \in queue : Listed(req) /\ CallParseArtList(req, PageAt(req.url))
    \/ \E req \in queue : CallParseArt(req, Page(<<>>, <<>>, FullDetail))

SpecChain == InitChain /\ [][NextChain]_vars

----------------------------------------------------------------------------
(* A whole crawl of a fixed finite site. The site is a tree of MaxTreePages *)
(* pages under the root page, page k at "/p<k>": page k is linked from its  *)
(* parent (0 is the root page), which is one of the two pages before it,    *)
(* either by a subcategory link with a name, or by a Next link in the       *)
(* parent's listing. Page k lists n[k] art links,                           *)
(* each with a url of its own, a Prev link back to its parent when it was   *)
(* reached by Next, and the Next link to its next page if it has one.       *)
(* Pending requests are handled in any order.                               *)

MaxTreePages == 3

MaxTreeItems == 1

ArtPaths ==
    <<<<"a11", "a12", "a13">>, <<"a21", "a22", "a23">>, <<"a31", "a32", "a33">>,
      <<"a41", "a42", "a43">>, <<"a51", "a52", "a53">>, <<"a61", "a62", "a63">>>>

HrefTreeArt(k, i) ==
    [scheme |-> "", netloc |-> "", rooted |-> TRUE, path |-> ArtPaths[k][i]]

TreeParents ==
    {f \in [1..MaxTreePages -> 0..(MaxTreePages - 1)] :
        \A k \in 1..MaxTreePages : f[k] < k /\ f[k] >= k - 2}

\* the kinds of the links to the pages: the root page has subcategory links
\* only, and a listing has at most one Next link
TreeLinks(p) ==
    {f \in [1..MaxTreePages -> {"cat", "next"}] :
        /\ \A k \in 1..MaxTreePages : p[k] = 0 => f[k] = "cat"
        /\ \A j, k \in 1..MaxTreePages :
              (f[j] = "next" /\ f[k] = "next" /\ p[j] = p[k]) => j = k}

\* the names of the links to the pages: a top-level category has a name
\* that is allowed once sanitized, or one that is not
TreeNames(p) ==
    {f \in [1..MaxTreePages -> {NameInSunshLoud, NameOther}] :
        \A k \in 1..MaxTreePages : p[k] # 0 => f[k] = NameOther}

\* a page lists one art link; the last page, which links to no page, lists
\* MaxTreeItems art links or none
TreeCounts ==
    {[k \in 1..MaxTreePages |-> IF k = MaxTreePages THEN c ELSE 1] :
        c \in {0, MaxTreeItems}}

TreeSites(p) ==
    {[parent |-> p, link |-> l, name |-> m, n |-> n] :
        l \in TreeLinks(p), m \in TreeNames(p), n \in TreeCounts}

\* the pages linked from page p by a link of the given kind, in page order
TreeChildren(s, p, kind) ==
    SelectSeq([k \in 1..MaxTreePages |-> k],
              LAMBDA k : s.parent[k] = p /\ s.link[k] = kind)

TreeSubcats(s, p) ==
    LET cats == TreeChildren(s, p, "cat")
    IN  [j \in 1..Len(cats) |->
            [h3 |-> <<s.name[cats[j]]>>, href |-> <<HrefPage(cats[j])>>]]

TreeRootPage(s) == Page(TreeSubcats(s, 0), <<>>, NoDetail)

TreePage(s, k) ==
    LET nexts == TreeChildren(s, k, "next")
    IN  Page(TreeSubcats(s, k),
             [i \in 1..s.n[k] |->
                 [href |-> <<HrefTreeArt(k, i)>>, text |-> <<TextItemA>>]]
               \o (IF s.link[k] = "next"
                   THEN <<[href |-> <<HrefPage(s.parent[k])>>,
                           text |-> <<TextPrevAsSet>>]>>
                   ELSE <<>>)
               \o [j \in 1..Len(nexts) |->
                      [href |-> <<HrefPage(nexts[j])>>, text |-> <<TextNext>>]],
             NoDetail)

TreeListed(req) == \E k \in 1..MaxTreePages : PageUrl(k) = req.url

TreePageAt(url) ==
    TreePage(site, CHOOSE k \in 1..MaxTreePages : PageUrl(k) = url)

InitTree ==
    /\ Is(Started)
    /\ \E p \in TreeParents : site \in TreeSites(p)
    /\ call = NoCall

NextTree ==
    \/ \E req \in queue : CallParse(req, TreeRootPage(site))
    \/ \E req \in queue :
          TreeListed(req) /\ CallParseSubcategory(req, TreePageAt(req.url))
    \/ \E req \in queue :
          TreeListed(req) /\ CallParseArtList(req, TreePageAt(req.url))
    \/ \E req \in queue : CallParseArt(req, Page(<<>>, <<>>, FullDetail))

SpecTree == InitTree /\ [][NextTree]_vars

----------------------------------------------------------------------------
(* Malformed pages: a crawl whose pages have up to MaxFailLinks links, among *)
(* them links without a name, without an href or without a text, before or  *)
(* after links that have everything.                                        *)

MaxFailLinks == 2

\* not allowed and without an href: parse does not look at the href
HreflessOtherSubLink == [h3 |-> <<NameOther>>, href |-> <<>>]

\* a "previous" link without an href
HreflessPrevLink == [href |-> <<>>, text |-> <<TextPrevAsSet>>]

FailSubLinks ==
    {[h3 |-> <<NameInSunsh>>, href |-> <<HrefRooted>>],
     [h3 |-> <<NameSummertime>>, href |-> <<HrefRelative>>],
     NamelessSubLink, HreflessSubLink, HreflessOtherSubLink}

FailArtLinks ==
    {[href |-> <<HrefRooted>>, text |-> <<TextArt>>],
     [href |-> <<HrefRelative>>, text |-> <<TextNext>>],
     TextlessArtLink, HreflessArtLink, HreflessPrevLink}

FailRootPages ==
    {Page(l, <<>>, NoDetail) : l \in SeqsUpTo(FailSubLinks, MaxFailLinks)}

FailListingPages ==
    {Page(<<>>, a, NoDetail) : a \in SeqsUpTo(FailArtLinks, MaxFailLinks)}

FailCategoryPages ==
    {Page(l, <<>>, NoDetail) : l \in SeqsUpTo(FailSubLinks, MaxFailLinks) \ {<<>>}}
        \cup FailListingPages

\* the root page listed two allowed categories
TwoPending ==
    AfterRoot(Page(<<[h3 |-> <<NameInSunsh>>, href |-> <<HrefRooted>>],
                     [h3 |-> <<NameSummertime>>, href |-> <<HrefRelative>>]>>,
                   <<>>, NoDetail))

\* the first of them listed an art and a Next link: its sibling, the art and
\* the next page are pending
SiblingPending ==
    LET req  == TwoPending.last.out[1]
        page == SecondPagePending.last.page
    IN  Step(TwoPending, req, page,
             parse_subcategory(Response(req, page), TwoPending.heap))

FailStart == Is(Started) \/ Is(TwoPending) \/ Is(SiblingPending)

InitFailure == FailStart /\ site = <<>> /\ call = NoCall

\* a page with one art link and nothing wrong
PlainPage == Page(<<>>, OneArt, NoDetail)

\* the crawl has handled nothing, the root page, or the root page and a
\* category; the next page served is any page, malformed or not, and the
\* pages served after it are plain
NextFailure ==
    \/ \E req \in queue, page \in FailRootPages : CallParse(req, page)
    \/ \E req \in queue, page \in FailCategoryPages :
          /\ Fetching
          /\ FailStart \/ page = PlainPage
          /\ CallParseSubcategory(req, page)
    \/ \E req \in queue, page \in FailListingPages :
          /\ Fetching
          /\ FailStart \/ page = PlainPage
          /\ CallParseArtList(req, page)
    \/ \E req \in queue : Fetching /\ CallParseArt(req, Page(<<>>, <<>>, FullDetail))

SpecFailure == InitFailure /\ [][NextFailure]_vars

----------------------------------------------------------------------------
(* The dimension texts extract_physical_dimension is called with: a text is *)
(* pre ++ open ++ H ++ sep ++ W ++ unit ++ gap ++ tail ++ post, each part   *)
(* drawn from a table that says whether the part is what the pattern asks   *)
(* for at that place, and for H and W the number the digits denote.         *)

DimPre ==
    { [text |-> <<>>, newline |-> FALSE, group |-> FALSE],
      [text |-> <<"G","i","c","l","e","e"," ","p","r","i","n","t"," ">>, newline |-> FALSE, group |-> FALSE],
      [text |-> <<"a","\n">>, newline |-> TRUE, group |-> FALSE],
      [text |-> <<"(","1",".","0"," ","x"," ","2",".","0"," ","c","m",")"," ","(","s","h","e","e","t",")"," ">>, newline |-> FALSE, group |-> TRUE] }

DimOpen == { [text |-> <<"(">>, ok |-> TRUE], [text |-> <<>>, ok |-> FALSE] }

DimH ==
    { [text |-> <<"2","9",".","7">>, ok |-> TRUE, val |-> [type |-> "float", whole |-> 29, frac |-> <<"7">>]],
      [text |-> <<"0","7",".","5","0">>, ok |-> TRUE, val |-> [type |-> "float", whole |-> 7, frac |-> <<"5">>]],
      [text |-> <<"2","9">>, ok |-> FALSE, val |-> None] }

DimSep ==
    { [text |-> <<" ","x"," ">>, ok |-> TRUE], [text |-> <<" ","\t","x","\t">>, ok |-> TRUE],
      [text |-> <<" ","x"," "," ">>, ok |-> FALSE], [text |-> <<"x"," ">>, ok |-> FALSE] }

DimW ==
    { [text |-> <<"2","1",".","0">>, ok |-> TRUE, val |-> [type |-> "float", whole |-> 21, frac |-> <<>>]],
      [text |-> <<"3",".","2","5">>, ok |-> TRUE, val |-> [type |-> "float", whole |-> 3, frac |-> <<"2","5">>]],
      [text |-> <<"2","1",".">>, ok |-> FALSE, val |-> None] }

DimUnit ==
    { [text |-> <<" ","c","m",")">>, ok |-> TRUE], [text |-> <<"c","m",")">>, ok |-> FALSE],
      [text |-> <<" ","c","m">>, ok |-> FALSE] }

DimGap ==
    { [text |-> <<" ">>, ok |-> TRUE], [text |-> <<" ","\t">>, ok |-> TRUE],
      [text |-> <<>>, ok |-> FALSE] }

DimTail == { [text |-> <<"(","s","h","e","e","t",")">>, ok |-> TRUE], [text |-> <<"(","i","m","a","g","e",")">>, ok |-> FALSE] }

\* what follows the tail: nothing, other text, a further "(H x W cm) (sheet)"
\* on the same line (group), or one on the next line; ends: the text then
\* ends with such a group
DimPost ==
    { [text |-> <<>>, group |-> FALSE, ends |-> FALSE],
      [text |-> <<" ","f","r","a","m","e","d">>, group |-> FALSE, ends |-> FALSE],
      [text |-> <<" ","(","3",".","5"," ","x"," ","4",".","5"," ","c","m",")",
                  " ","(","s","h","e","e","t",")">>,
       group |-> TRUE, ends |-> TRUE],
      [text |-> <<"\n","(","3",".","5"," ","x"," ","4",".","5"," ","c","m",")",
                  " ","(","s","h","e","e","t",")">>,
       group |-> FALSE, ends |-> TRUE] }

\* the value of the group in DimPre, and of the group in DimPost
PreGroupValue == [height |-> [type |-> "float", whole |-> 1, frac |-> <<>>], width |-> [type |-> "float", whole |-> 2, frac |-> <<>>]]

PostGroupValue == [height |-> [type |-> "float", whole |-> 3, frac |-> <<"5">>], width |-> [type |-> "float", whole |-> 4, frac |-> <<"5">>]]

DimParts ==
    [pre : DimPre, open : DimOpen, H : DimH, sep : DimSep, W : DimW,
     unit : DimUnit, gap : DimGap, tail : DimTail, post : DimPost]

\* "Unknown size"
UnknownSize ==
    [pre  |-> [text |-> <<"U","n","k","n","o","w","n"," ","s","i","z","e">>, newline |-> FALSE, group |-> FALSE],
     open |-> [text |-> <<>>, ok |-> FALSE],
     H    |-> [text |-> <<>>, ok |-> FALSE, val |-> None],
     sep  |-> [text |-> <<>>, ok |-> FALSE],
     W    |-> [text |-> <<>>, ok |-> FALSE, val |-> None],
     unit |-> [text |-> <<>>, ok |-> FALSE],
     gap  |-> [text |-> <<>>, ok |-> FALSE],
     tail |-> [text |-> <<>>, ok |-> FALSE],
     post |-> [text |-> <<>>, group |-> FALSE, ends |-> FALSE]]

DimText(p) ==
    p.pre.text \o p.open.text \o p.H.text \o p.sep.text \o p.W.text
        \o p.unit.text \o p.gap.text \o p.tail.text \o p.post.text

InitCrawlIdle ==
    /\ queue = {}
    /\ heap = <<>>
    /\ items = <<>>
    /\ last = [callback |-> "none"]
    /\ handled = {}
    /\ site = <<>>

InitDimension ==
    /\ InitCrawlIdle
    /\ \E p \in DimParts \cup {UnknownSize}, t \in {"height", "width"} :
          call = [fn |-> "extract_physical_dimension", parts |-> p,
                  details |-> DimText(p), type |-> t,
                  returned |-> FALSE, ret |-> None]

\* the call returns
DimensionReturn ==
    /\ call.fn = "extract_physical_dimension"
    /\ ~call.returned
    /\ call' = [call EXCEPT !.returned = TRUE,
                   !.ret = extract_physical_dimension(call.details, call.type)]
    /\ UNCHANGED <<queue, heap, items, last, handled, site>>

NextDimension == DimensionReturn

SpecDimension == InitDimension /\ [][NextDimension]_vars

----------------------------------------------------------------------------
(* The names sanitize_category is called with: two names, one by one, and   *)
(* as a list and as a tuple of the two.                                     *)

MaxNameLen == 2

NameChars == {"a", "A", "B", " ", "\t", "\n"}

InitSanitize ==
    /\ InitCrawlIdle
    /\ \E n1, n2 \in SeqsUpTo(NameChars, MaxNameLen) :
          call = [fn |-> "sanitize_category", names |-> <<n1, n2>>,
                  returned |-> FALSE, ret |-> None]

\* the calls return
SanitizeReturn ==
    /\ call.fn = "sanitize_category"
    /\ ~call.returned
    /\ call' = [call EXCEPT !.returned = TRUE,
                   !.ret = [single |-> <<sanitize_category(PyStr(call.names[1])),
                                         sanitize_category(PyStr(call.names[2]))>>,
                            list   |-> sanitize_category(PyList(call.names)),
                            tuple  |-> sanitize_category(PyTuple(call.names))]]
    /\ UNCHANGED <<queue, heap, items, last, handled, site>>

NextSanitize == SanitizeReturn

SpecSanitize == InitSanitize /\ [][NextSanitize]_vars

----------------------------------------------------------------------------
(* One item page alone: the crawl has reached a listing with one art link,  *)
(* and parse_art runs on item pages whose xpaths select nothing, one text   *)
(* or two, with dimension texts that match the pattern and that do not.     *)

SheetText ==
    <<"G","i","c","l","e","e"," ","p","r","i","n","t"," ",
      "(","2","9",".","7"," ","x"," ","2","1",".","0"," ","c","m",")",
      " ","(","s","h","e","e","t",")">>

UnknownSizeText == <<"U","n","k","n","o","w","n"," ","s","i","z","e">>

\* the group without "(sheet)"
UnsheetedText ==
    <<"(","2","9",".","7"," ","x"," ","2","1",".","0"," ","c","m",")">>

DimensionTexts ==
    {<<>>, <<SheetText>>, <<UnknownSizeText>>, <<UnsheetedText>>,
     <<UnknownSizeText, UnsheetedText>>, <<UnknownSizeText, SheetText>>}

DetailPages ==
    {Page(<<>>, <<>>,
          [artist |-> a, title |-> t, image |-> i, dimension |-> x,
           description |-> d]) :
        a \in {<<>>, <<<<"A">>>>, <<<<"A">>, <<"B">>>>},
        t \in {<<>>, <<<<"T">>>>, <<<<"T">>, <<"U">>>>},
        i \in {<<>>, <<HrefRooted>>, <<HrefAbsolute, HrefRooted>>},
        x \in DimensionTexts,
        d \in {<<>>, <<<<"D">>>>}}

NextItem ==
    \E req \in queue \cap SecondPagePending.queue, page \in DetailPages :
        CallParseArt(req, page)

SpecItem == InitListing /\ [][NextItem]_vars

----------------------------------------------------------------------------
(* Pages with links at both places: the root page lists one category, and   *)
(* the pages served for that category and for the second page of its        *)
(* listing have up to MaxMixedLinks subcategory links and up to             *)
(* MaxMixedLinks listing links.                                             *)

MaxMixedLinks == 2

MixedSubLinks ==
    {[h3 |-> <<NameOther>>, href |-> <<HrefRooted>>],
     [h3 |-> <<NameSummertime>>, href |-> <<HrefRelative>>]}

MixedArtLinks ==
    {[href |-> <<HrefAbsolute>>, text |-> <<TextItemA>>],
     [href |-> <<HrefRelative>>, text |-> <<TextNext>>],
     [href |-> <<HrefRooted>>, text |-> <<TextPrevAsSet>>]}

MixedPages ==
    {Page(l, a, NoDetail) : l \in SeqsUpTo(MixedSubLinks, MaxMixedLinks),
                            a \in SeqsUpTo(MixedArtLinks, MaxMixedLinks)}

InitMixed == Is(LeafPending) /\ site = <<>> /\ call = NoCall

\* the category the root page lists is handled, and one page that a Next
\* link of its listing leads to
NextMixed ==
    \/ \E req \in queue \cap LeafPending.queue, page \in MixedPages :
          CallParseSubcategory(req, page)
    \/ \E req \in queue, page \in MixedPages :
          /\ req.hist.chain = <<LeafPending.last.out[1].url>>
          /\ handled = LeafPending.handled \cup LeafPending.queue
          /\ CallParseArtList(req, page)

SpecMixed == InitMixed /\ [][NextMixed]_vars

----------------------------------------------------------------------------
(* What the claims speak of *)

\* a category name as the crawl compares it: lower-cased, spaces deleted
Canonical(name) == SelectSeq(lower(name), LAMBDA c : c # " ")

AllowedName(name) ==
    \E i \in DOMAIN allowed_categories.val :
        Canonical(allowed_categories.val[i]) = Canonical(name)

\* every request yielded so far, the start request included
Tasks == queue \cup handled

IsCategoryTask(r) == r.callback = "parse_subcategory"

IsPaginationTask(r) == r.callback = "parse_art_list"

IsItemTask(r) == r.callback = "parse_art"

\* the elements of the list a request's meta holds, as they are now
TaskPath(r) == PathOf(heap, r.meta.browse_path)

Front(p) == SubSeq(p, 1, Len(p) - 1)

CompleteSubcats(page) ==
    \A i \in DOMAIN page.subcats :
        page.subcats[i].h3 # <<>> /\ page.subcats[i].href # <<>>

CompleteArts(page) ==
    \A i \in DOMAIN page.arts :
        page.arts[i].href # <<>> /\ page.arts[i].text # <<>>

\* the k-th smallest element of a set of indices
Nth(idx, k) == CHOOSE i \in idx : Cardinality({j \in idx : j <= i}) = k

\* the last callback ran parse_art_list over its page
ListingProcessed ==
    /\ last.callback \in {"parse_subcategory", "parse_art_list"}
    /\ \E i \in DOMAIN last.calls : last.calls[i] = "parse_art_list"

----------------------------------------------------------------------------
(* C1 *)

\* C1: every request yielded (category, pagination, item) and every item
\* record carries a non-empty browse path whose first element, canonicalized,
\* is in the canonicalized allow-list.
C1_AllowListed ==
    /\ \A r \in Tasks :
          r.callback # "parse" =>
              TaskPath(r) # <<>> /\ AllowedName(TaskPath(r)[1])
    /\ \A i \in DOMAIN items :
          /\ items[i].path # None
          /\ items[i].path.val # <<>>
          /\ AllowedName(items[i].path.val[1])

\* an item record has been produced under a category that is allowed only
\* once canonicalized, from a listing that also has a next page
C1_Witness ==
    /\ items # <<>>
    /\ items[1].path.val[1] = NameInSunshLoud
    /\ \E r \in queue : IsPaginationTask(r)

----------------------------------------------------------------------------
(* C2 *)

\* C2: on a root page whose links all have a name and an href, parse yields
\* exactly one category request per link whose canonicalized name is in the
\* canonicalized allow-list, in page order, and nothing for any other link;
\* no exception is raised, also when no link passes.
C2_RootFilter ==
    (last.callback = "parse" /\ CompleteSubcats(last.page)) =>
        LET links == last.page.subcats
            idx == {i \in DOMAIN links : AllowedName(links[i].h3[1])}
        IN  /\ ~last.failed
            /\ Len(last.out) = Cardinality(idx)
            /\ \A k \in DOMAIN last.out :
                  /\ IsCategoryTask(last.out[k])
                  /\ last.out[k].url = urljoin(base_url, links[Nth(idx, k)].href[1])
                  /\ TaskPath(last.out[k]) = <<links[Nth(idx, k)].h3[1]>>
            /\ queue = SeqToSet(last.out)
            /\ items = <<>>

\* children {In Sunsh, Other, Summertime} give exactly 2 category requests
C2_Witness ==
    /\ last.callback = "parse"
    /\ Len(last.page.subcats) = 3
    /\ CompleteSubcats(last.page)
    /\ [i \in 1..3 |-> last.page.subcats[i].h3[1]]
          = <<NameInSunsh, NameOther, NameSummertime>>
    /\ Len(last.out) = 2
    /\ Cardinality(queue) = 2

----------------------------------------------------------------------------
(* C4 *)

\* C4 as claimed: every page handled by parse or parse_subcategory that has
\* no subcategory link is handed to parse_art_list, yields no category
\* request and yields no request for its own url.
C4_LeafAlwaysListed ==
    (last.callback \in {"parse", "parse_subcategory"}
        /\ last.page.subcats = <<>>) =>
        /\ ListingProcessed
        /\ \A k \in DOMAIN last.out :
              ~IsCategoryTask(last.out[k]) /\ last.out[k].url # last.request.url

\* C4, amended: a page handled by parse_subcategory that has no subcategory
\* link is handed to parse_art_list with its path unchanged: it yields one
\* request per listing link that is not "previous", each with the page's
\* path, and no category request (a "next" link to the page itself does give
\* a pagination request for the page's own url). The root page, handled by
\* parse, is never handed to parse_art_list: without subcategory links it
\* yields nothing.
C4_NonRootLeafListed ==
    /\ (last.callback = "parse_subcategory" /\ last.page.subcats = <<>>) =>
          /\ last.calls = <<"parse_subcategory", "parse_art_list">>
          /\ TaskPath(last.request) = last.path
          /\ \A k \in DOMAIN last.out :
                /\ ~IsCategoryTask(last.out[k])
                /\ TaskPath(last.out[k]) = last.path
          /\ CompleteArts(last.page) =>
                Len(last.out) = Cardinality({i \in DOMAIN last.page.arts :
                    lower(last.page.arts[i].text[1]) # lower(previous_text)})
    /\ (last.callback = "parse" /\ last.page.subcats = <<>>) =>
          last.calls = <<"parse">> /\ last.out = <<>>

\* a category page without subcategory links has yielded an item request
\* and a pagination request
C4_Witness ==
    /\ last.callback = "parse_subcategory"
    /\ last.page.subcats = <<>>
    /\ \E k \in DOMAIN last.out : IsItemTask(last.out[k])
    /\ \E k \in DOMAIN last.out : IsPaginationTask(last.out[k])

----------------------------------------------------------------------------
(* C5 *)

\* C5 as claimed: no pagination request targets a listing page already
\* scheduled in its chain, whatever the listing pages contain.
C5_NeverRevisits ==
    \A r \in Tasks :
        IsPaginationTask(r) => r.url \notin SeqToSet(r.hist.chain)

\* the urls the "next" links of a listing page resolve to
NextTargets(page) ==
    {urljoin(base_url, page.arts[i].href[1]) :
        i \in {j \in DOMAIN page.arts :
                  /\ page.arts[j].href # <<>>
                  /\ page.arts[j].text # <<>>
                  /\ lower(page.arts[j].text[1]) = lower(next_text)}}

\* C5, amended: a listing page yields pagination requests only for its
\* "next" links, each for the url that link resolves to, and never for a
\* "previous" link; so a listing page already scheduled in the chain is
\* targeted again only when a "next" link of the page points at it. Nothing
\* else prevents the revisit: there is no visited set.
C5_OnlyNextFollowed ==
    ListingProcessed =>
        LET scheduled == SeqToSet(last.request.hist.chain) \cup {last.request.url}
            paginations == {k \in DOMAIN last.out : IsPaginationTask(last.out[k])}
        IN  /\ \A k \in paginations :
                  /\ last.out[k].url \in NextTargets(last.page)
                  /\ SeqToSet(last.out[k].hist.chain) = scheduled
            /\ NextTargets(last.page) \cap scheduled = {} =>
                  \A k \in paginations : last.out[k].url \notin scheduled

\* the second page of a listing has a "previous" link back to the first page
\* and a "next" link onwards: only the latter is followed
C5_Witness ==
    /\ last.callback = "parse_art_list"
    /\ Len(last.page.arts) = 2
    /\ CompleteArts(last.page)
    /\ lower(last.page.arts[1].text[1]) = lower(previous_text)
    /\ urljoin(base_url, last.page.arts[1].href[1]) \in SeqToSet(last.request.hist.chain)
    /\ lower(last.page.arts[2].text[1]) = lower(next_text)
    /\ Len(last.out) = 1
    /\ IsPaginationTask(last.out[1])
    /\ last.out[1].url \notin SeqToSet(last.out[1].hist.chain)

----------------------------------------------------------------------------
(* C6 *)

\* C6: on a listing page whose links all have an href and a text, a link
\* whose text, compared case-insensitively, is the "previous" marker yields
\* nothing, one whose text is the "next" marker yields exactly one pagination
\* request, and every other link yields exactly one item request, in page
\* order, each for the url the link resolves to.
C6_Classified ==
    (ListingProcessed /\ CompleteArts(last.page)) =>
        LET arts == last.page.arts
            text(i) == lower(arts[i].text[1])
            kept == {i \in DOMAIN arts : text(i) # lower(previous_text)}
        IN  /\ ~last.failed
            /\ Len(last.out) = Cardinality(kept)
            /\ \A k \in DOMAIN last.out :
                  LET i == Nth(kept, k)
                  IN  /\ last.out[k].url = urljoin(base_url, arts[i].href[1])
                      /\ last.out[k].meta.url = last.out[k].url
                      /\ IF text(i) = lower(next_text)
                         THEN IsPaginationTask(last.out[k])
                         ELSE IsItemTask(last.out[k])

\* {Prev, item-A, item-B, Next}: two item requests, one pagination request
C6_Witness ==
    /\ last.callback = "parse_art_list"
    /\ Len(last.page.arts) = 4
    /\ CompleteArts(last.page)
    /\ [i \in 1..4 |-> last.page.arts[i].text[1]]
          = <<TextPrevAsSet, TextItemA, TextItemB, TextNext>>
    /\ Len(last.out) = 3
    /\ Cardinality({k \in DOMAIN last.out : IsItemTask(last.out[k])}) = 2
    /\ Cardinality({k \in DOMAIN last.out : IsPaginationTask(last.out[k])}) = 1

----------------------------------------------------------------------------
(* C7 *)

\* C7: no two requests hold the same list, in whatever order the requests
\* are handled; the list a request holds has the elements it was yielded
\* with, whatever has been handled since, and so has the list of the page
\* just handled; the category requests yielded from one page have paths that
\* are the page's path plus one last element.
C7_PathIsolation ==
    /\ \A r1, r2 \in Tasks :
          (r1 # r2 /\ r1.callback # "parse" /\ r2.callback # "parse") =>
              r1.meta.browse_path # r2.meta.browse_path
    /\ \A r \in Tasks : TaskPath(r) = r.hist.path
    /\ last.callback # "none" => TaskPath(last.request) = last.path
    /\ last.callback \in {"parse", "parse_subcategory"} =>
          \A k \in DOMAIN last.out :
              IsCategoryTask(last.out[k]) =>
                  /\ Front(TaskPath(last.out[k])) = last.path
                  /\ Len(TaskPath(last.out[k])) = Len(last.path) + 1

\* two sibling category requests with different last elements are pending
\* after their parent, a non-root category page, was handled
C7_Witness ==
    /\ last.callback = "parse_subcategory"
    /\ Len(last.out) = 2
    /\ last.out[1] \in queue /\ last.out[2] \in queue
    /\ IsCategoryTask(last.out[1]) /\ IsCategoryTask(last.out[2])
    /\ Front(TaskPath(last.out[1])) = Front(TaskPath(last.out[2]))
    /\ TaskPath(last.out[1]) # TaskPath(last.out[2])

----------------------------------------------------------------------------
(* C8 *)

\* the art links of a page of the chain
ItemLinks(page) ==
    Cardinality({i \in DOMAIN page.arts : page.arts[i].text = <<TextItemA>>})

RECURSIVE SumItemLinks(_)
SumItemLinks(pages) ==
    IF pages = {} THEN 0
    ELSE LET k == CHOOSE x \in pages : TRUE
         IN  ItemLinks(site[k]) + SumItemLinks(pages \ {k})

\* the pages of the chain whose request has been handled
ProcessedPages == {k \in DOMAIN site : \E r \in handled : r.url = PageUrl(k)}

\* while the chain is followed: the item requests yielded are one per art
\* link of the pages processed, every item and pagination request has the
\* path of the leaf's first page, no page is requested twice and no
\* pagination request targets page 1
ChainThreaded ==
    /\ Cardinality({r \in Tasks : IsItemTask(r)}) = SumItemLinks(ProcessedPages)
    /\ \A r \in Tasks :
          (IsItemTask(r) \/ IsPaginationTask(r)) =>
              /\ TaskPath(r) = <<NameInSunsh>>
              /\ r.hist.leaf = <<NameInSunsh>>
    /\ \A k \in DOMAIN site :
          Cardinality({r \in Tasks : ~IsItemTask(r) /\ r.url = PageUrl(k)}) <= 1
    /\ \A r \in Tasks : IsPaginationTask(r) => r.url # PageUrl(1)

\* every pending request is one a handler can be called for
ChainRunnable ==
    \A r \in queue : IsItemTask(r) \/ (~IsItemTask(r) /\ r.callback # "parse" /\ Listed(r))

\* a run handles no more requests than the root, the pages and the art links
ChainBounded ==
    Cardinality(handled) <= 1 + Len(site) + SumItemLinks(DOMAIN site)

\* the chain has been followed to its end
ChainDrained ==
    /\ queue = {}
    /\ ProcessedPages = DOMAIN site
    /\ Cardinality({r \in handled : IsItemTask(r)}) = SumItemLinks(DOMAIN site)

\* C8: on a leaf whose listing is a finite chain of "next" links, every art
\* link of every page processed yields exactly one item request, every item
\* and pagination request carries the path of the leaf's first page, and no
\* pagination request targets page 1; every page of the chain is processed:
\* a pending request can always be handled, a run handles a bounded number
\* of requests, and when none is pending every page has been processed and
\* every art link of the chain has its item request.
C8_ListingThreaded ==
    /\ ChainThreaded
    /\ ChainRunnable
    /\ ChainBounded
    /\ (queue = {} => ChainDrained)

\* page 1 = {item, item, Next}, page 2 = {item, Prev}: three item requests
C8_Witness ==
    /\ ChainDrained
    /\ Len(site) = 2
    /\ Len(site[1].arts) = 3
    /\ Len(site[2].arts) = 2
    /\ [i \in 1..3 |-> site[1].arts[i].text[1]] = <<TextItemA, TextItemA, TextNext>>
    /\ [i \in 1..2 |-> site[2].arts[i].text[1]] = <<TextItemA, TextPrevAsSet>>
    /\ Cardinality({r \in handled : IsItemTask(r)}) = 3
    /\ Cardinality({r \in handled : IsPaginationTask(r)}) = 1

----------------------------------------------------------------------------
(* C10 *)

\* C10: a category request yielded from a page with path P for a link named
\* n carries P ++ [n] (the root's path being empty); a request's path is as
\* long as its recursion level; handing a leaf page to parse_art_list and
\* following "next" leave the path as it is.
C10_PathGrowsByOne ==
    /\ \A r \in Tasks : Len(TaskPath(r)) = r.hist.depth
    /\ (last.callback = "parse_subcategory" /\ CompleteSubcats(last.page)) =>
          /\ last.page.subcats # <<>> => Len(last.out) = Len(last.page.subcats)
          /\ \A k \in DOMAIN last.out :
                IsCategoryTask(last.out[k]) =>
                    /\ TaskPath(last.out[k])
                          = Append(last.path, last.page.subcats[k].h3[1])
                    /\ last.out[k].hist.depth = last.request.hist.depth + 1
    /\ last.callback = "parse" =>
          \A k \in DOMAIN last.out :
              /\ Len(TaskPath(last.out[k])) = 1
              /\ last.out[k].hist.depth = 1
              /\ \E i \in DOMAIN last.page.subcats :
                    last.page.subcats[i].h3 = TaskPath(last.out[k])
    /\ ListingProcessed =>
          \A k \in DOMAIN last.out :
              /\ TaskPath(last.out[k]) = last.path
              /\ last.out[k].hist.depth = last.request.hist.depth

\* a category request two levels down, with a path of two names
C10_Witness ==
    \E r \in queue :
        /\ IsCategoryTask(r)
        /\ r.hist.depth = 2
        /\ TaskPath(r) = <<NameInSunshLoud, NameOther>>

----------------------------------------------------------------------------
(* C3 *)

\* a name case-folded, with the characters of `drop` deleted
RECURSIVE Folded(_, _)
Folded(name, drop) ==
    IF name = <<>> THEN <<>>
    ELSE LET c == Head(name)
             f == CASE c = "A" -> "a" [] c = "B" -> "b" [] OTHER -> c
         IN  IF c \in drop THEN Folded(Tail(name), drop)
             ELSE <<f>> \o Folded(Tail(name), drop)

Whitespace == {" ", "\t", "\n"}

\* C3 as claimed: two names that are equal after case-folding and deleting
\* every whitespace character (spaces, tabs, newlines) have equal canonical
\* forms.
C3_AnyWhitespace ==
    (call.fn = "sanitize_category" /\ call.returned) =>
        (Folded(call.names[1], Whitespace) = Folded(call.names[2], Whitespace)
            => call.ret.single[1] = call.ret.single[2])

\* C3, amended: sanitize_category lower-cases a name and deletes its space
\* characters, and only those (tabs and newlines stay), so two names that are
\* equal after lower-casing and deleting every space have equal canonical
\* forms; a list or a tuple of names gives the list of the element-wise
\* canonical forms, in the same order.
C3_SpacesOnly ==
    (call.fn = "sanitize_category" /\ call.returned) =>
        LET canon == [i \in 1..2 |-> Folded(call.names[i], {" "})]
        IN  /\ \A i \in 1..2 : call.ret.single[i] = PyStr(canon[i])
            /\ (canon[1] = canon[2] => call.ret.single[1] = call.ret.single[2])
            /\ call.ret.list = PyList(canon)
            /\ call.ret.tuple = PyList(canon)

\* two different names, one with a capital and one with a space, come out equal
C3_Witness ==
    /\ call.fn = "sanitize_category"
    /\ call.returned
    /\ call.names[1] # call.names[2]
    /\ \E i \in 1..2 : \E k \in DOMAIN call.names[i] : call.names[i][k] = " "
    /\ \E i \in 1..2 : \E k \in DOMAIN call.names[i] : call.names[i][k] = "A"
    /\ call.ret.single[1] = call.ret.single[2]
    /\ call.ret.list.val[1] = call.ret.list.val[2]

----------------------------------------------------------------------------
(* C9 *)

MainOk(p) ==
    /\ p.open.ok /\ p.H.ok /\ p.sep.ok /\ p.W.ok
    /\ p.unit.ok /\ p.gap.ok /\ p.tail.ok

MainValue(p) == [height |-> p.H.val, width |-> p.W.val]

\* C9 as claimed: a value is returned only when the whole text matches
\* "... (H x W cm) (sheet)", that is, ends with such a group; text with
\* characters after "(sheet)" gives absent.
C9_WholeText ==
    (call.fn = "extract_physical_dimension" /\ call.returned) =>
        LET p == call.parts
        IN  call.ret # None => (p.post.ends \/ (p.post.text = <<>> /\ MainOk(p)))

\* C9, amended: extract_physical_dimension returns a value exactly when
\* "(H x W cm) (sheet)", H and W decimal numbers, occurs on the first line of
\* the text; what follows "(sheet)" is ignored; the value is the H (height) or
\* the W (width) of the last such occurrence on the first line, as a float.
\* Every other text gives absent, and no text raises.
C9_FirstLinePrefix ==
    (call.fn = "extract_physical_dimension" /\ call.returned) =>
        LET p == call.parts
        IN  call.ret =
                IF p.pre.newline THEN None
                ELSE IF p.post.group THEN PostGroupValue[call.type]
                ELSE IF MainOk(p) THEN MainValue(p)[call.type]
                ELSE IF p.pre.group THEN PreGroupValue[call.type]
                ELSE None

\* "Giclee print (29.7 x 21.0 cm) (sheet) framed" gives 29.7 for the height
C9_Witness ==
    /\ call.fn = "extract_physical_dimension"
    /\ call.returned
    /\ call.type = "height"
    /\ call.details =
          <<"G","i","c","l","e","e"," ","p","r","i","n","t"," ",
            "(","2","9",".","7"," ","x"," ","2","1",".","0"," ","c","m",")",
            " ","(","s","h","e","e","t",")"," ","f","r","a","m","e","d">>
    /\ call.ret = [type |-> "float", whole |-> 29, frac |-> <<"7">>]

----------------------------------------------------------------------------
(* C11 *)

\* C11: a category page handled by parse_subcategory whose subcategory links
\* all have a name and an href yields exactly one category request per link,
\* in page order, whatever the name (in the allow-list or not), for the url
\* the link resolves to and with the link's name as last path element; each
\* of these requests is for parse_subcategory again, never for parse.
C11_FilterAtRootOnly ==
    (last.callback = "parse_subcategory" /\ last.page.subcats # <<>>
        /\ CompleteSubcats(last.page)) =>
        LET links == last.page.subcats
        IN  /\ ~last.failed
            /\ Len(last.out) = Len(links)
            /\ \A k \in DOMAIN last.out :
                  /\ last.out[k].callback = "parse_subcategory"
                  /\ last.out[k].url = urljoin(base_url, links[k].href[1])
                  /\ TaskPath(last.out[k]) = Append(last.path, links[k].h3[1])

\* a category page has yielded a request for a subcategory whose name is not
\* in the allow-list, next to one whose name is
C11_Witness ==
    /\ last.callback = "parse_subcategory"
    /\ Len(last.page.subcats) = 2
    /\ CompleteSubcats(last.page)
    /\ ~AllowedName(last.page.subcats[1].h3[1])
    /\ AllowedName(last.page.subcats[2].h3[1])
    /\ Len(last.out) = 2
    /\ last.out[1] \in queue
    /\ TaskPath(last.out[1])[Len(TaskPath(last.out[1]))] = NameOther

----------------------------------------------------------------------------
(* C12 *)

\* C12: parse yields category requests only; parse_subcategory yields
\* category, pagination and item requests, never a request for parse;
\* parse_art_list, called for a pagination request, yields pagination and
\* item requests only; parse_art yields no request and exactly one item;
\* parse, parse_subcategory and parse_art_list yield no item; the only
\* request for parse is the start request.
C12_NoBackwardTransition ==
    /\ last.callback = "parse" =>
          /\ \A k \in DOMAIN last.out : IsCategoryTask(last.out[k])
          /\ last.items = <<>>
    /\ last.callback = "parse_subcategory" =>
          /\ \A k \in DOMAIN last.out :
                IsCategoryTask(last.out[k]) \/ IsPaginationTask(last.out[k])
                    \/ IsItemTask(last.out[k])
          /\ last.items = <<>>
    /\ last.callback = "parse_art_list" =>
          /\ \A k \in DOMAIN last.out :
                IsPaginationTask(last.out[k]) \/ IsItemTask(last.out[k])
          /\ last.items = <<>>
    /\ last.callback = "parse_art" =>
          /\ last.out = <<>>
          /\ Len(last.items) = 1
          /\ ~last.failed
    /\ \A r \in Tasks : r.callback = "parse" => r = StartRequest
    /\ Len(items) = Cardinality({r \in handled : IsItemTask(r)})

\* a pagination request has been handled: its page gave an item request and
\* a further pagination request
C12_Witness ==
    /\ last.callback = "parse_art_list"
    /\ IsPaginationTask(last.request)
    /\ \E k \in DOMAIN last.out : IsItemTask(last.out[k])
    /\ \E k \in DOMAIN last.out : IsPaginationTask(last.out[k])

----------------------------------------------------------------------------
(* C13 *)

\* the browse path page k of the site is to be crawled with: the names of
\* the subcategory links from the root page down to it, a page reached by
\* Next having the path of the page before
RECURSIVE TreePath(_, _)
TreePath(s, k) ==
    IF k = 0 THEN <<>>
    ELSE IF s.link[k] = "next" THEN TreePath(s, s.parent[k])
    ELSE Append(TreePath(s, s.parent[k]), s.name[k])

\* C13: an item request has its own url in its meta and the browse path of
\* the leaf category whose listing (on whichever page of its chain) holds
\* the item link; the item built for an item request has that request's url
\* and, element for element and in order, that request's browse path.
C13_Provenance ==
    /\ \A r \in Tasks :
          IsItemTask(r) =>
              /\ r.meta.url = r.url
              /\ TaskPath(r) = r.hist.leaf
              /\ \E k \in 1..MaxTreePages : \E i \in 1..site.n[k] :
                    /\ r.url = urljoin(base_url, HrefTreeArt(k, i))
                    /\ TaskPath(r) = TreePath(site, k)
    /\ last.callback = "parse_art" =>
          /\ Len(last.items) = 1
          /\ last.items[1].url = last.request.url
          /\ last.items[1].path = PyList(TaskPath(last.request))
          /\ items[Len(items)] = last.items[1]
    /\ \A i \in DOMAIN items :
          \E r \in handled :
              /\ IsItemTask(r)
              /\ items[i].url = r.url
              /\ items[i].path = PyList(TaskPath(r))

\* an item found on the second page of the listing of a category two levels
\* down has been recorded with the two names of that category
C13_Witness ==
    /\ site.parent = <<0, 1, 2>>
    /\ site.link = <<"cat", "cat", "next">>
    /\ \E i \in DOMAIN items :
          /\ items[i].url = urljoin(base_url, HrefTreeArt(3, 1))
          /\ items[i].path = PyList(<<NameInSunshLoud, NameOther>>)

----------------------------------------------------------------------------
(* C14 *)

\* the links of the page just handled at which its callback raises: parse
\* looks at the href of an allowed link only; parse_art_list looks at the
\* href and the text of every link, also of a "previous" link
BadLinks ==
    IF last.callback = "parse"
    THEN {i \in DOMAIN last.page.subcats :
             \/ last.page.subcats[i].h3 = <<>>
             \/ /\ AllowedName(last.page.subcats[i].h3[1])
                /\ last.page.subcats[i].href = <<>>}
    ELSE IF last.callback = "parse_subcategory" /\ last.page.subcats # <<>>
    THEN {i \in DOMAIN last.page.subcats :
             last.page.subcats[i].h3 = <<>> \/ last.page.subcats[i].href = <<>>}
    ELSE IF last.callback \in {"parse_subcategory", "parse_art_list"}
    THEN {i \in DOMAIN last.page.arts :
             last.page.arts[i].href = <<>> \/ last.page.arts[i].text = <<>>}
    ELSE {}

\* the links before the first one the callback raises at
BeforeFailure ==
    LET links == IF last.callback = "parse"
                    \/ (last.callback = "parse_subcategory" /\ last.page.subcats # <<>>)
                 THEN last.page.subcats ELSE last.page.arts
    IN  {i \in DOMAIN links : \A b \in BadLinks : i < b}

\* of these, the links that give a request
YieldingBeforeFailure ==
    IF last.callback = "parse"
    THEN {i \in BeforeFailure : AllowedName(last.page.subcats[i].h3[1])}
    ELSE IF last.callback = "parse_subcategory" /\ last.page.subcats # <<>>
    THEN BeforeFailure
    ELSE {i \in BeforeFailure :
             lower(last.page.arts[i].text[1]) # lower(previous_text)}

\* the href of link i of the page just handled
LinkHref(i) ==
    IF last.callback = "parse"
        \/ (last.callback = "parse_subcategory" /\ last.page.subcats # <<>>)
    THEN last.page.subcats[i].href[1] ELSE last.page.arts[i].href[1]

\* the failure of a page is confined to its request
FailureConfined ==
    last.callback \in {"parse", "parse_subcategory", "parse_art_list"} =>
        /\ last.failed <=> BadLinks # {}
        /\ Len(last.out) = Cardinality(YieldingBeforeFailure)
        /\ \A k \in DOMAIN last.out :
              last.out[k].url = urljoin(base_url, LinkHref(Nth(YieldingBeforeFailure, k)))
        /\ last.items = <<>>
        /\ SeqToSet(last.out) \subseteq queue
        /\ last.request \in handled

\* every pending request is one a callback can be called for
Runnable ==
    \A r \in queue :
        r.callback \in {"parse", "parse_subcategory", "parse_art_list", "parse_art"}

\* C14: a callback that meets a link without the name, href or text it takes
\* ends there: its page gives the requests of the links before that link and
\* nothing after it, and no item; the crawl goes on: no pending request is
\* ever dropped, each stays pending until it is handled, and every pending
\* request can be handled.
C14_FailureIsolated ==
    /\ [](FailureConfined /\ Runnable)
    /\ [][\A r \in queue : r \in queue' \/ r \in handled']_vars

\* a category page failed at its second link after yielding for its first,
\* while the request for its sibling is pending: both requests are pending
\* afterwards
C14_Witness ==
    /\ last.callback = "parse_subcategory"
    /\ last.failed
    /\ Len(last.page.subcats) = 2
    /\ Len(last.out) = 1
    /\ last.out[1] \in queue
    /\ \E r \in queue :
          /\ IsCategoryTask(r)
          /\ r.hist.depth = 1
          /\ TaskPath(r) # TaskPath(last.request)

----------------------------------------------------------------------------
(* C15 *)

\* the first of the texts an xpath selects, or None
FirstText(texts) == IF texts = <<>> THEN None ELSE PyStr(texts[1])

\* C15: parse_art gives exactly one item for every item page and raises
\* nothing; when no dimension text of the page matches the pattern, height
\* and width are absent; url, title, image, description, artist and path are
\* what the request and the page give, whatever the dimension texts are.
C15_UnmatchedDimension ==
    last.callback = "parse_art" =>
        /\ ~last.failed
        /\ Len(last.items) = 1
        /\ last.out = <<>>
        /\ LET d == last.page.detail
               item == last.items[1]
           IN  /\ (\A i \in DOMAIN d.dimension : d.dimension[i] # SheetText) =>
                     item.height = None /\ item.width = None
               /\ (\E i \in DOMAIN d.dimension : d.dimension[i] = SheetText) =>
                     /\ item.height = [type |-> "float", whole |-> 29, frac |-> <<"7">>]
                     /\ item.width = [type |-> "float", whole |-> 21, frac |-> <<>>]
               /\ item.url = last.request.url
               /\ item.title = FirstText(d.title)
               /\ item.description = FirstText(d.description)
               /\ item.image = (IF d.image = <<>> THEN None
                                ELSE urljoin(base_url, d.image[1]))
               /\ item.artist = (IF d.artist = <<>> THEN None ELSE PyList(d.artist))
               /\ item.path = PyList(last.path)

\* an item page whose dimension text is "Unknown size" has given an item
\* with every field but height and width
C15_Witness ==
    /\ last.callback = "parse_art"
    /\ last.page.detail.dimension = <<UnknownSizeText>>
    /\ Len(items) = 1
    /\ items[1].height = None
    /\ items[1].width = None
    /\ items[1].title = PyStr(<<"T">>)
    /\ items[1].artist = PyList(<<<<"A">>, <<"B">>>>)
    /\ items[1].image # None
    /\ items[1].description = PyStr(<<"D">>)
    /\ items[1].path = PyList(<<NameInSunsh>>)

----------------------------------------------------------------------------
(* C16 *)

\* page k of the site is one whose listing is read: it is reached by Next,
\* or it is a category page without subcategory links
TreeLists(s, k) == s.link[k] = "next" \/ TreeChildren(s, k, "cat") = <<>>

\* page k of the site is to be crawled: its top-level category is in the
\* allow-list, and each page on the way down is linked from a page that
\* follows that kind of link
RECURSIVE TreeReached(_, _)
TreeReached(s, k) ==
    IF s.parent[k] = 0 THEN AllowedName(s.name[k])
    ELSE /\ TreeReached(s, s.parent[k])
         /\ IF s.link[k] = "cat" THEN s.link[s.parent[k]] = "cat"
            ELSE TreeLists(s, s.parent[k])

\* the urls of the art links to be crawled
TreeItemUrls ==
    UNION {{urljoin(base_url, HrefTreeArt(k, i)) : i \in 1..site.n[k]} :
              k \in {p \in 1..MaxTreePages :
                        TreeReached(site, p) /\ TreeLists(site, p)}}

\* every pending request is one a callback can be called for
TreeRunnable ==
    \A r \in queue :
        \/ r = StartRequest
        \/ IsItemTask(r)
        \/ (IsCategoryTask(r) \/ IsPaginationTask(r)) /\ TreeListed(r)

\* the crawl is over: every request yielded has been handled, the pages
\* handled are the pages to be crawled, and there is one item per art link
\* to be crawled
TreeDrained ==
    /\ queue = {}
    /\ StartRequest \in handled
    /\ {k \in 1..MaxTreePages : \E r \in handled : r.url = PageUrl(k)}
          = {k \in 1..MaxTreePages : TreeReached(site, k)}
    /\ {items[i].url : i \in DOMAIN items} = TreeItemUrls
    /\ Len(items) = Cardinality(TreeItemUrls)

\* C16: on a finite tree site the crawl terminates: every pending request
\* can be handled, a request that has been handled is never pending again,
\* no two requests are for the same page or art link, so that a run handles
\* a bounded number of requests; and when no request is pending, every
\* request yielded has been handled, the pages handled are exactly the pages
\* under an allowed top-level category, and exactly one item has been
\* recorded for every art link of their listings.
C16_Terminates ==
    /\ TreeRunnable
    /\ queue \cap handled = {}
    /\ \A r1, r2 \in Tasks : r1.url = r2.url => r1 = r2
    /\ Cardinality(handled) <= 1 + MaxTreePages + MaxTreePages * MaxTreeItems
    /\ {items[i].url : i \in DOMAIN items} \subseteq TreeItemUrls
    /\ (queue = {} => TreeDrained)

\* the crawl of a site is over: the allowed category, one art on each of
\* the two pages of its listing, gave two items; the art of the category
\* that is not allowed gave none
C16_Witness ==
    /\ TreeDrained
    /\ site.parent = <<0, 0, 1>>
    /\ site.link = <<"cat", "cat", "next">>
    /\ site.name[1] = NameInSunshLoud
    /\ site.name[2] = NameOther
    /\ site.n = <<1, 1, 1>>
    /\ Len(items) = 2
    /\ Cardinality(handled) = 5

----------------------------------------------------------------------------
(* C17 *)

\* C17: a pagination request exists only once the listing page before it
\* has been handled: it is for the url of a "next" link of a page that a
\* handled request fetched and whose listing was read, its chain is that
\* request's chain and url, and every page of its chain has been handled.
\* Nothing else orders the requests: every pending request, of whatever
\* subtree, can be handled next.
C17_ChainOrder ==
    /\ \A r \in Tasks :
          IsPaginationTask(r) =>
              /\ \E h \in handled :
                    /\ h # r
                    /\ h.callback \in {"parse_subcategory", "parse_art_list"}
                    /\ TreeListed(h)
                    /\ \E k \in 1..MaxTreePages :
                          /\ PageUrl(k) = h.url
                          /\ TreeLists(site, k)
                    /\ r.url \in NextTargets(TreePageAt(h.url))
                    /\ r.hist.chain = Append(h.hist.chain, h.url)
              /\ \A i \in DOMAIN r.hist.chain :
                    \E h \in handled : h.url = r.hist.chain[i]
    /\ TreeRunnable

\* the second page of a listing is pending next to the request of another
\* category, which has not been handled
C17_Witness ==
    /\ site.parent = <<0, 0, 1>>
    /\ site.link = <<"cat", "cat", "next">>
    /\ \E r \in queue : IsPaginationTask(r) /\ r.url = PageUrl(3)
    /\ \E r \in queue : IsCategoryTask(r) /\ r.url = PageUrl(2)
    /\ \E r \in handled : r.url = PageUrl(1)

----------------------------------------------------------------------------
(* C18 *)

\* a category page with subcategory links yields category requests only,
\* one per link, whatever it has at the listing place
InternalPagesRecurse ==
    (last.callback = "parse_subcategory" /\ last.page.subcats # <<>>) =>
        /\ last.calls = <<"parse_subcategory">>
        /\ Len(last.out) = Len(last.page.subcats)
        /\ \A k \in DOMAIN last.out :
              /\ IsCategoryTask(last.out[k])
              /\ last.out[k].url
                    = urljoin(base_url, last.page.subcats[k].href[1])

\* C18 as claimed: a category page with subcategory links yields category
\* requests only, and item and pagination requests come only from pages
\* without subcategory links.
C18_ExclusivePerPage ==
    /\ InternalPagesRecurse
    /\ (\E k \in DOMAIN last.out :
            IsItemTask(last.out[k]) \/ IsPaginationTask(last.out[k]))
          => last.page.subcats = <<>>

\* C18, amended: a category page (handled by parse_subcategory) with
\* subcategory links yields category requests only, one per link, also when
\* it has links at the listing place; a category page yields item and
\* pagination requests only when it has no subcategory link. A page reached
\* by a "next" link (handled by parse_art_list) yields the item and
\* pagination requests of its listing links whether or not it has
\* subcategory links, which are not looked at there.
C18_ExclusiveOnCategoryPages ==
    /\ InternalPagesRecurse
    /\ (last.callback = "parse_subcategory"
          /\ \E k \in DOMAIN last.out :
                IsItemTask(last.out[k]) \/ IsPaginationTask(last.out[k]))
          => last.page.subcats = <<>>
    /\ last.callback = "parse_art_list" =>
          /\ \A k \in DOMAIN last.out :
                IsItemTask(last.out[k]) \/ IsPaginationTask(last.out[k])
          /\ Len(last.out) = Cardinality({i \in DOMAIN last.page.arts :
                lower(last.page.arts[i].text[1]) # lower(previous_text)})

\* a category page with two subcategory links, an art link and a Next link
\* has yielded two category requests and nothing else
C18_Witness ==
    /\ last.callback = "parse_subcategory"
    /\ Len(last.page.subcats) = 2
    /\ Len(last.page.arts) = 2
    /\ last.page.arts[1].text = <<TextItemA>>
    /\ last.page.arts[2].text = <<TextNext>>
    /\ Len(last.out) = 2
    /\ \A k \in DOMAIN last.out : IsCategoryTask(last.out[k])

====
